---- MODULE Spec2Model ----
(***************************************************************************)
(* Scheduled actions of open-webui-custom: the scheduler service           *)
(* (services/scheduler.py), the repository it reads and writes             *)
(* (models/scheduled_actions.py) and the API routes that edit the action   *)
(* set and ask for a reload (routers/scheduled_actions.py).                *)
(*                                                                         *)
(* Time is measured in seconds, as in the code (epoch seconds); the clock  *)
(* advances in ticks of SecondsPerTick seconds.  Everything runs on one    *)
(* asyncio event loop: a handler runs without interruption up to its next  *)
(* real suspension point.  The only suspension point of a fire is the      *)
(* awaited executor (scheduler.py:231); reload_jobs and the API handlers   *)
(* contain none (the repository calls are synchronous).                    *)
(***************************************************************************)
EXTENDS Integers, Sequences, FiniteSets, TLC

\* ---------------------------------------------------------------- bounds
NumIds == 2
MaxTime == 2
SecondsPerTick == 40
MaxCount == 2
MaxCalls == 3

Ids == 1..NumIds
HorizonSec == MaxTime * SecondsPerTick

\* ------------------------------------------------------------- constants
misfire_grace_time == 60
max_instances == 1
DefaultIntervalValue == 60

\* None of Python, for the nullable timestamps and for a missing row.
NoTime == -1
NoAction == [absent |-> TRUE]
NoTrigger == [kind |-> "none"]

\* ------------------------------------------------------------ dictionaries
\* dict.get(k, default)
Get(d, k, default) == IF k \in DOMAIN d THEN d[k] ELSE default

EmptyDict == [k \in {} |-> TRUE]

\* {**d, **u}: the keys of u override those of d
Merge(d, u) ==
    [k \in (DOMAIN d) \cup (DOMAIN u) |-> IF k \in DOMAIN u THEN u[k] ELSE d[k]]

Min(a, b) == IF a <= b THEN a ELSE b

RemoveAt(s, i) == [j \in 1..(Len(s) - 1) |-> IF j < i THEN s[j] ELSE s[j + 1]]

\* ------------------------------------------------------ trigger calculator
\* datetime.fromisoformat(dt_str.replace('Z', '+00:00')), as epoch seconds;
\* ValueError (here NoTime) for a string that is no ISO-8601 datetime.
IsoValue ==
    [s \in {"1970-01-01T00:00:00Z", "1970-01-01T00:00:00+00:00",
            "1970-01-01T00:01:00Z"} |->
        IF s = "1970-01-01T00:01:00Z" THEN 60 ELSE 0]

FromIsoFormat(s) == IF s \in DOMAIN IsoValue THEN IsoValue[s] ELSE NoTime

\* A cron expression is the sequence of its whitespace-separated fields:
\* minute, hour, day of month, month, day of week.
DefaultCron == <<"0", "9", "*", "*", "*">>
CronNumbers == {"0", "5", "7", "9"}
CronTokens == {"*", "1-5", "0,6"} \cup CronNumbers
CronNumber(tok) ==
    CASE tok = "5" -> 5
      [] tok = "7" -> 7
      [] tok = "9" -> 9
      [] OTHER -> 0

\* the values a field token other than "*" stands for: a number, a range, a list
CronValues(tok) ==
    CASE tok = "1-5" -> 1..5
      [] tok = "0,6" -> {0, 6}
      [] OTHER -> {CronNumber(tok)}

\* the values croniter allows in field i (7 is Sunday, like 0; a sixth field
\* holds seconds)
CroniterRange(i) ==
    CASE i = 2 -> 0..23
      [] i = 3 -> 1..31
      [] i = 4 -> 1..12
      [] i = 5 -> 0..7
      [] OTHER -> 0..59

\* the values CronTrigger allows in field i: its days of the week are 0..6
CronTriggerRange(i) == IF i = 5 THEN 0..6 ELSE CroniterRange(i)

\* croniter.is_valid: five fields, or six with a seconds field, each well formed
CroniterIsValid(expr) ==
    /\ Len(expr) \in {5, 6}
    /\ \A i \in 1..Len(expr) :
        /\ expr[i] \in CronTokens
        /\ expr[i] # "*" => CronValues(expr[i]) \subseteq CroniterRange(i)

\* CronTrigger(minute, hour, day, month, day_of_week) raises ValueError for a
\* value outside the range of its field
CronTriggerAccepts(fields) ==
    \A i \in 1..5 :
        fields[i] # "*" => CronValues(fields[i]) \subseteq CronTriggerRange(i)

IntervalUnits == {"seconds", "minutes", "hours", "days", "weeks"}
UnitSeconds(unit) ==
    CASE unit = "seconds" -> 1
      [] unit = "minutes" -> 60
      [] unit = "hours" -> 3600
      [] unit = "days" -> 86400
      [] unit = "weeks" -> 604800

\* The keyword arguments of IntervalTrigger that are no unit and take a number:
\* jitter, the bound in seconds of a random shift of each fire time (jitter 0
\* shifts nothing; the shift of a larger one is left out here).  start_date,
\* end_date and timezone raise TypeError for a number.
IntervalOptions == {"jitter"}

\* timedelta(**{unit: value}) in seconds; IntervalTrigger turns a zero length
\* into one second
IntervalLength(value, unit) ==
    IF value * UnitSeconds(unit) = 0 THEN 1 ELSE value * UnitSeconds(unit)

\* SchedulerService._create_trigger.  nowSec is the construction time, which
\* IntervalTrigger takes as the origin of its first period.
CreateTrigger(action, nowSec) ==
    LET schedule_type == action.schedule_type
        config == action.schedule_config
    IN  IF schedule_type = "cron" THEN
            LET cron_expr == Get(config, "expression", DefaultCron) IN
            IF ~CroniterIsValid(cron_expr) THEN NoTrigger
            ELSE IF Len(cron_expr) = 5
                 THEN IF CronTriggerAccepts(cron_expr)
                      THEN [kind |-> "cron", fields |-> cron_expr]
                      ELSE NoTrigger
                 ELSE NoTrigger
        ELSE IF schedule_type = "interval" THEN
            LET value == Get(config, "value", DefaultIntervalValue)
                unit == Get(config, "unit", "minutes")
            IN  IF unit \in IntervalUnits
                THEN [kind |-> "interval",
                      seconds |-> IntervalLength(value, unit),
                      start_date |-> nowSec + IntervalLength(value, unit)]
                ELSE IF unit \in IntervalOptions
                THEN [kind |-> "interval",
                      seconds |-> IntervalLength(0, "seconds"),
                      start_date |-> nowSec + IntervalLength(0, "seconds")]
                ELSE NoTrigger
        ELSE IF schedule_type = "once" THEN
            LET dt_str == IF Get(config, "datetime", "") # ""
                          THEN config["datetime"]
                          ELSE Get(config, "run_at", "") IN
            IF dt_str = "" THEN NoTrigger
            ELSE IF FromIsoFormat(dt_str) = NoTime THEN NoTrigger
                 ELSE [kind |-> "date", run_date |-> FromIsoFormat(dt_str)]
        ELSE NoTrigger

\* smallest multiple of step that is >= t
CeilTo(t, step) == ((t + step - 1) \div step) * step

\* The calendar of the days the fire times are searched in: day d counts from
\* 1970-01-01, a Thursday in January; the search ends after CronScanDays days.
CronScanDays == 7
DayOfMonth(d) == d + 1
MonthOf(d) == 1

\* the day of the week of day d as CronTrigger numbers it: 0 is Monday
WeekdayMondayFirst(d) == (d + 3) % 7

FieldMatches(tok, v) == tok = "*" \/ v \in CronValues(tok)

\* CronTrigger: on day d every one of the fields day, month and day_of_week
\* matches
CronTriggerDayMatches(fields, d) ==
    /\ FieldMatches(fields[3], DayOfMonth(d))
    /\ FieldMatches(fields[4], MonthOf(d))
    /\ FieldMatches(fields[5], WeekdayMondayFirst(d))

\* the seconds of the day at which the minute and hour fields match
MatchesOfDay(m, h) ==
    {hh * 3600 + mm * 60 :
        hh \in IF h = "*" THEN 0..23 ELSE CronValues(h),
        mm \in IF m = "*" THEN 0..59 ELSE CronValues(m)}

SetMin(S) == CHOOSE x \in S : \A y \in S : x <= y

\* the least element of a set of instants; NoTime when it is empty
MinOrNoTime(S) == IF S = {} THEN NoTime ELSE SetMin(S)

\* the first second of the day, from fromSec on, at which the minute and hour
\* fields match; NoTime when the day has none left
FirstInDay(m, h, fromSec) ==
    IF m = "*" /\ h = "*"
    THEN MinOrNoTime({CeilTo(fromSec, 60)} \cap 0..86399)
    ELSE MinOrNoTime({t \in MatchesOfDay(m, h) : t >= fromSec})

\* the seconds of day d that are left from startSec on
FromOfDay(d, startSec) ==
    IF d = startSec \div 86400 THEN startSec - d * 86400 ELSE 0

\* the first instant of day d, from startSec on, at which the minute and hour
\* fields match; NoTime when d is no day (NoTime) or has none left
FirstOnDay(fields, startSec, d) ==
    IF d = NoTime THEN NoTime
    ELSE d * 86400 + FirstInDay(fields[1], fields[2], FromOfDay(d, startSec))

\* the first instant >= startSec, on one of the days matching, at which the
\* minute and hour fields match; NoTime when those days have none
FirstMatch(fields, startSec, matching) ==
    FirstOnDay(fields, startSec,
        MinOrNoTime({d \in matching :
            /\ d >= startSec \div 86400
            /\ FirstInDay(fields[1], fields[2], FromOfDay(d, startSec)) # NoTime}))

\* CronTrigger.get_next_fire_time: the first instant >= startSec all fields
\* match
CronFirstAtOrAfter(fields, startSec) ==
    FirstMatch(fields, startSec,
               {d \in 0..(CronScanDays - 1) : CronTriggerDayMatches(fields, d)})

\* trigger.get_next_fire_time(None, now): the first fire of a new job
FirstFire(trigger, nowSec) ==
    CASE trigger.kind = "date" -> trigger.run_date
      [] trigger.kind = "interval" ->
            IF trigger.start_date > nowSec THEN trigger.start_date
            ELSE trigger.start_date
                 + CeilTo(nowSec - trigger.start_date, trigger.seconds)
      [] trigger.kind = "cron" -> CronFirstAtOrAfter(trigger.fields, nowSec)

RECURSIVE CronLastAtOrBefore(_, _, _)
CronLastAtOrBefore(fields, t, nowSec) ==
    LET n == CronFirstAtOrAfter(fields, t + 1) IN
    IF n = NoTime \/ n > nowSec THEN t ELSE CronLastAtOrBefore(fields, n, nowSec)

\* The latest fire time <= nowSec of a due job (coalesce = True keeps only
\* the last of job._get_run_times(now)).
LastRunTime(job, nowSec) ==
    CASE job.trigger.kind = "date" -> job.next_run_time
      [] job.trigger.kind = "interval" ->
            job.next_run_time
            + ((nowSec - job.next_run_time) \div job.trigger.seconds)
              * job.trigger.seconds
      [] job.trigger.kind = "cron" ->
            CronLastAtOrBefore(job.trigger.fields, job.next_run_time, nowSec)

\* trigger.get_next_fire_time(run_time, now) after a dispatch; NoTime when the
\* trigger is exhausted
NextFire(trigger, run_time) ==
    CASE trigger.kind = "date" -> NoTime
      [] trigger.kind = "interval" -> run_time + trigger.seconds
      [] trigger.kind = "cron" -> CronFirstAtOrAfter(trigger.fields, run_time + 1)

\* -------------------------------------------------------------- repository
\* ScheduledActionsTable.get_enabled_scheduled_actions, in the order the
\* query returns the rows (order is a sequence of ids)
GetEnabledScheduledActions(db, order) ==
    [i \in 1..Len(order) |-> db[order[i]]]

EnabledIdsUnfiltered(db) == {a \in Ids : db[a] # NoAction}

\* filter_by(enabled=True): the ids of the rows the query returns
EnabledIds(db) == {a \in Ids : db[a] # NoAction /\ db[a].enabled}

\* the orders in which the enabled rows can come back
SnapshotOrders(db) ==
    {o \in [1..Cardinality(EnabledIds(db)) -> EnabledIds(db)] :
        \A i, j \in DOMAIN o : i # j => o[i] # o[j]}

\* ScheduledActionsTable.get_scheduled_action_by_id: None when the row is
\* missing, and also when the query raises
GetScheduledActionById(db, id, faults) ==
    IF "get_by_id" \in faults THEN NoAction ELSE db[id]

UpdateRunTimesEnabling(db, id, last_run_at, next_run_at) ==
    IF db[id] = NoAction THEN db
    ELSE [db EXCEPT ![id] =
            [@ EXCEPT !.last_run_at = last_run_at,
                      !.next_run_at = IF next_run_at # NoTime THEN next_run_at ELSE @,
                      !.enabled = TRUE]]

\* ScheduledActionsTable.update_scheduled_action_run_times: next_run_at is
\* only written when it is not None
UpdateRunTimes(db, id, last_run_at, next_run_at) ==
    IF db[id] = NoAction THEN db
    ELSE [db EXCEPT ![id] =
            [@ EXCEPT !.last_run_at = last_run_at,
                      !.next_run_at = IF next_run_at # NoTime THEN next_run_at ELSE @]]

\* ScheduledActionsTable.update_scheduled_action_by_id: the fields the form
\* sets (exclude_unset) overwrite the row's
UpdateScheduledActionById(db, id, form) ==
    IF db[id] = NoAction THEN db
    ELSE [db EXCEPT ![id] = Merge(@, form)]

\* ScheduledActionsTable.delete_scheduled_action_by_id
DeleteScheduledActionById(db, id) == [db EXCEPT ![id] = NoAction]

\* ScheduledActionsTable.delete_scheduled_actions_by_user_id
DeleteScheduledActionsByUserId(db, user_id) ==
    [a \in Ids |-> IF db[a] # NoAction /\ db[a].user_id = user_id
                   THEN NoAction ELSE db[a]]

\* ScheduledActionsTable.insert_new_scheduled_action
InsertNewScheduledAction(db, id, user_id, form) ==
    [db EXCEPT ![id] =
        [id |-> id, user_id |-> user_id,
         schedule_type |-> form.schedule_type,
         schedule_config |-> form.schedule_config,
         action_type |-> form.action_type,
         action_config |-> form.action_config,
         enabled |-> form.enabled,
         last_run_at |-> NoTime, next_run_at |-> NoTime]]

\* ------------------------------------------------------- the timer subsystem
\* f"action_{action.id}"
JobId(action_id) == <<"action_", action_id>>

JobIndex(jobs, job_id) == {i \in 1..Len(jobs) : jobs[i].id = job_id}

\* scheduler.get_job: None (here NoAction) when no job has that id
GetJob(jobs, job_id) ==
    IF JobIndex(jobs, job_id) = {} THEN NoAction
    ELSE jobs[CHOOSE i \in JobIndex(jobs, job_id) : TRUE]

\* scheduler.remove_job
WithoutJobWrongId(jobs, job_id) == jobs

RECURSIVE WithoutJob(_, _)
WithoutJob(jobs, job_id) ==
    IF jobs = << >> THEN << >>
    ELSE IF Head(jobs).id = job_id THEN WithoutJob(Tail(jobs), job_id)
         ELSE <<Head(jobs)>> \o WithoutJob(Tail(jobs), job_id)

\* scheduler.remove_all_jobs: the job store, or the pending list of a
\* scheduler that is not running, is emptied
RemoveAllJobsKeep(jobs) == jobs

RemoveAllJobs(jobs) == << >>

\* scheduler.add_job(..., id=job_id, replace_existing=True): a running scheduler
\* computes the first fire time and replaces a job of the same id; a scheduler
\* that is not running appends to its pending list, the job has no
\* next_run_time yet
AddJob(jobs, is_running, job_id, action_id, trigger, nowSec) ==
    LET job == [id |-> job_id, args |-> action_id, trigger |-> trigger,
                next_run_time |-> IF is_running THEN FirstFire(trigger, nowSec)
                                  ELSE NoTime]
    IN  IF ~is_running THEN Append(jobs, job)
        ELSE IF JobIndex(jobs, job_id) = {} THEN Append(jobs, job)
        ELSE [i \in 1..Len(jobs) |-> IF jobs[i].id = job_id THEN job ELSE jobs[i]]

\* scheduler.start(): every pending job is really added, replacing a job of
\* the same id, with its first fire time computed now
RECURSIVE RealAddPending(_, _, _)
RealAddPending(store, pending, nowSec) ==
    IF pending = << >> THEN store
    ELSE RealAddPending(
            AddJob(store, TRUE, Head(pending).id, Head(pending).args,
                   Head(pending).trigger, nowSec),
            Tail(pending), nowSec)

\* A line of the service's log.  lastLog keeps, of the lines an operation
\* writes, the last one at WARNING or above, or its last INFO line when it
\* wrote none; the lines reload_jobs writes are kept without the action's id.
Log(msg, id) == [level |-> "WARNING", msg |-> msg, id |-> id]

Info(msg, id) == [level |-> "INFO", msg |-> msg, id |-> id]

\* the log after a further INFO line
ThenInfo(lg, msg, id) == IF lg.level = "INFO" THEN Info(msg, id) ELSE lg

\* ----------------------------------------------------------- reconciliation
\* SchedulerService._schedule_action on the scheduler state
\* s = [jobs, job_map, db, log, raised, added]; every exception is caught
\* inside.  s.added collects the timers handed to scheduler.add_job.
ScheduleActionUndoOnError(s, action, is_running, nowSec, faults) ==
    LET trigger == CreateTrigger(action, nowSec) IN
    IF trigger = NoTrigger
    THEN [s EXCEPT !.log = Log("Could not create trigger", 0)]
    ELSE IF is_running /\ "update_run_times" \in faults
         THEN [s EXCEPT !.raised = TRUE, !.log = Log("Error scheduling action", 0)]
         ELSE [s EXCEPT !.jobs = AddJob(s.jobs, is_running, JobId(action.id),
                                        action.id, trigger, nowSec),
                        !.added = @ \cup {[id |-> JobId(action.id),
                                           trigger |-> trigger]}]

ScheduleAction(s, action, is_running, nowSec, faults) ==
    LET trigger == CreateTrigger(action, nowSec) IN
    IF trigger = NoTrigger
    THEN [s EXCEPT !.log = Log("Could not create trigger", 0)]
    ELSE
        LET jobs1 == AddJob(s.jobs, is_running, JobId(action.id), action.id,
                            trigger, nowSec)
            job == GetJob(jobs1, JobId(action.id))
            map1 == [a \in (DOMAIN s.job_map) \cup {action.id} |->
                        IF a = action.id THEN job.id ELSE s.job_map[a]]
            s1 == [s EXCEPT !.jobs = jobs1, !.job_map = map1,
                            !.added = @ \cup {[id |-> job.id, trigger |-> trigger]}]
        IN  IF job.next_run_time # NoTime
            THEN IF "update_run_times" \in faults
                 THEN [s1 EXCEPT !.log = Log("Error scheduling action", 0)]
                 ELSE [s1 EXCEPT !.db = UpdateRunTimes(
                                    s.db, action.id,
                                    IF action.last_run_at # NoTime
                                    THEN action.last_run_at ELSE 0,
                                    job.next_run_time),
                                !.log = ThenInfo(s.log, "Scheduled action - Next run", 0)]
            ELSE [s1 EXCEPT !.log = ThenInfo(s.log, "Scheduled action", 0)]

RECURSIVE ScheduleAllStopAtSkip(_, _, _, _, _)
ScheduleAllStopAtSkip(s, actions, is_running, nowSec, faults) ==
    IF actions = << >> \/ s.raised THEN s
    ELSE IF CreateTrigger(Head(actions), nowSec) = NoTrigger
         THEN [s EXCEPT !.raised = TRUE]
         ELSE ScheduleAllStopAtSkip(
                ScheduleAction(s, Head(actions), is_running, nowSec, faults),
                Tail(actions), is_running, nowSec, faults)

\* the loop of reload_jobs; an exception out of _schedule_action would end it
RECURSIVE ScheduleAll(_, _, _, _, _)
ScheduleAll(s, actions, is_running, nowSec, faults) ==
    IF actions = << >> \/ s.raised THEN s
    ELSE ScheduleAll(ScheduleAction(s, Head(actions), is_running, nowSec, faults),
                     Tail(actions), is_running, nowSec, faults)

KeepDue(old, job) ==
    IF GetJob(old, job.id) # NoAction /\ GetJob(old, job.id).next_run_time # NoTime
    THEN [job EXCEPT !.next_run_time = GetJob(old, job.id).next_run_time]
    ELSE job

ReloadJobsKeepDue(s, order, is_running, nowSec, faults) ==
    LET r == ScheduleAll(
                [s EXCEPT !.jobs = RemoveAllJobs(s.jobs), !.job_map = EmptyDict,
                          !.added = {},
                          !.log = Info("Found enabled scheduled actions", 0)],
                GetEnabledScheduledActions(s.db, order), is_running, nowSec, faults)
    IN  [r EXCEPT !.jobs = [i \in 1..Len(r.jobs) |-> KeepDue(s.jobs, r.jobs[i])]]

\* SchedulerService.reload_jobs
ReloadJobs(s, order, is_running, nowSec, faults) ==
    LET s0 == [s EXCEPT !.jobs = RemoveAllJobs(s.jobs),
                        !.job_map = EmptyDict,
                        !.added = {},
                        !.log = Info("Reloading scheduled jobs", 0)]
    IN  IF "get_enabled" \in faults
        THEN [s0 EXCEPT !.log = Log("Error reloading jobs", 0)]
        ELSE LET r == ScheduleAll(
                        [s0 EXCEPT !.log = Info("Found enabled scheduled actions", 0)],
                        GetEnabledScheduledActions(s.db, order),
                        is_running, nowSec, faults)
             IN  IF r.raised
                 THEN [r EXCEPT !.raised = FALSE,
                                !.log = Log("Error reloading jobs", 0)]
                 ELSE r

\* ------------------------------------------------------------------ state
VARIABLES
    db,         \* the scheduled_action table: id -> row, or NoAction
    calls,      \* how many API requests and reload calls have been made
    created,    \* how many ids insert_new_scheduled_action has handed out
    now,        \* the clock, in ticks
    running,    \* SchedulerService._running (the APScheduler runs)
    jobs,       \* the scheduler's jobs (pending ones while it is not running)
    job_map,    \* SchedulerService.job_map
    tasks,      \* the fires submitted to the event loop and not finished
    lastLog,    \* the last line the scheduler service logged
    raised,     \* an exception left reload_jobs or _execute_action_wrapper
    onceExecs,  \* executor invocations by fires of a never re-enabled 'once' action
    reenabled,  \* the API has set enabled from false to true for the action
    lastReload, \* the timers the most recent reload_jobs registered
    notified,   \* the completion notifications executed
    cancelled,  \* the fires scheduler.shutdown cancelled while they were in flight
    chats,      \* the chat table: the chats the executors created, by id
    refusals    \* the requests the routes refused, with the status they answered

vars == <<db, calls, created, now, running, jobs, job_map, tasks, lastLog, raised,
          onceExecs, reenabled, lastReload, notified, cancelled, chats, refusals>>

NowSec == now * SecondsPerTick

NumUsers == 1
Users == 1..NumUsers

\* the schedules the API is called with
ScheduleInputs ==
    { [schedule_type |-> "interval",
       schedule_config |-> [value |-> 1, unit |-> "minutes"]],
      [schedule_type |-> "once",
       schedule_config |-> [datetime |-> "1970-01-01T00:00:00Z"]],
      [schedule_type |-> "once",
       schedule_config |-> [datetime |-> "tomorrow"]],
      [schedule_type |-> "cron",
       schedule_config |-> [expression |-> <<"*", "*", "*", "*", "*">>]],
      [schedule_type |-> "cron",
       schedule_config |-> [expression |-> <<"x", "y", "z">>]],
      [schedule_type |-> "weekly", schedule_config |-> EmptyDict] }

valid_schedule_types == {"cron", "interval", "once"}

valid_action_types == {"web_search", "chat_completion", "notification"}

\* the action the requests of the scheduling scenarios carry
DefaultAction ==
    [action_type |-> "chat_completion", action_config |-> [prompt |-> "p"]]

\* ScheduledActionForm
ScheduledActionForm(sc, ac, e) ==
    [schedule_type |-> sc.schedule_type, schedule_config |-> sc.schedule_config,
     action_type |-> ac.action_type, action_config |-> ac.action_config,
     enabled |-> e]

Timers(js) == {[id |-> js[i].id, trigger |-> js[i].trigger] : i \in 1..Len(js)}

SchedulerState ==
    [jobs |-> jobs, job_map |-> job_map, db |-> db, log |-> lastLog,
     raised |-> FALSE, added |-> {}]

Init ==
    /\ db = [a \in Ids |-> NoAction]
    /\ created = 0
    /\ calls = 0
    /\ now = 0
    /\ running = FALSE
    /\ jobs = << >>
    /\ job_map = EmptyDict
    /\ tasks = << >>
    /\ lastLog = Info("", 0)
    /\ raised = FALSE
    /\ onceExecs = [a \in Ids |-> 0]
    /\ reenabled = [a \in Ids |-> FALSE]
    /\ lastReload = {}
    /\ notified = {}
    /\ cancelled = {}
    /\ chats = << >>
    /\ refusals = {}

\* the scheduler state r after a reload_jobs becomes the new state
InstallReload(r) ==
    /\ jobs' = r.jobs
    /\ job_map' = r.job_map
    /\ db' = r.db
    /\ lastLog' = r.log
    /\ raised' = (raised \/ r.raised)
    /\ lastReload' = r.added

\* reload_jobs called on the repository contents d
ReloadOn(d, faults) ==
    \E order \in SnapshotOrders(d) :
        InstallReload(ReloadJobs([SchedulerState EXCEPT !.db = d], order,
                                 running, NowSec, faults))

\* SchedulerService.reload_jobs, called by itself
Reload(faults) ==
    /\ calls < MaxCalls
    /\ calls' = calls + 1
    /\ ReloadOn(db, faults)
    /\ UNCHANGED <<created, now, running, tasks, onceExecs, reenabled, notified,
                   cancelled, chats, refusals>>

StartUnguarded(faults) ==
    \E order \in SnapshotOrders(db) :
        LET r == ReloadJobs(SchedulerState, order, FALSE, NowSec, faults) IN
        /\ jobs' = RealAddPending(jobs, r.jobs, NowSec)
        /\ job_map' = r.job_map
        /\ db' = r.db
        /\ lastLog' = ThenInfo(r.log, "Scheduler service started successfully", 0)
        /\ raised' = (raised \/ r.raised)
        /\ lastReload' = r.added
        /\ running' = TRUE
        /\ UNCHANGED <<calls, created, now, tasks, onceExecs, reenabled, notified,
                       cancelled, chats, refusals>>

\* SchedulerService.start
Start(faults) ==
    IF running
    THEN /\ lastLog' = Log("Scheduler service is already running", 0)
         /\ UNCHANGED <<db, calls, created, now, running, jobs, job_map, tasks, raised,
                        onceExecs, reenabled, lastReload, notified, cancelled, chats, refusals>>
    ELSE \E order \in SnapshotOrders(db) :
            LET r == ReloadJobs(SchedulerState, order, FALSE, NowSec, faults) IN
            /\ jobs' = RealAddPending(<< >>, r.jobs, NowSec)
            /\ job_map' = r.job_map
            /\ db' = r.db
            /\ lastLog' = ThenInfo(r.log, "Scheduler service started successfully", 0)
            /\ raised' = (raised \/ r.raised)
            /\ lastReload' = r.added
            /\ running' = TRUE
            /\ UNCHANGED <<calls, created, now, tasks, onceExecs, reenabled, notified,
                           cancelled, chats, refusals>>

\* the status codes of the responses of POST /create
BadRequest == 400
Ok == 200

CreateResponseUnvalidated(form) == [status_code |-> Ok]

\* the response of POST /create when the repository and the reload work
CreateResponse(form) ==
    IF \/ form.action_type \notin valid_action_types
       \/ form.schedule_type \notin valid_schedule_types
    THEN [status_code |-> BadRequest]
    ELSE [status_code |-> Ok]

\* POST /create
ApiCreate(user_id, form, faults) ==
    /\ created < NumIds
    /\ calls < MaxCalls
    /\ calls' = calls + 1
    /\ IF CreateResponse(form).status_code = BadRequest
       THEN UNCHANGED <<db, created, now, running, jobs, job_map, tasks, lastLog,
                        raised, onceExecs, reenabled, lastReload, notified, cancelled, chats, refusals>>
       ELSE /\ created' = created + 1
            /\ ReloadOn(InsertNewScheduledAction(db, created + 1, user_id, form),
                        faults)
            /\ UNCHANGED <<now, running, tasks, onceExecs, reenabled, notified,
                           cancelled, chats, refusals>>

\* the action is re-enabled by this form
Reenables(id, form) ==
    /\ "enabled" \in DOMAIN form
    /\ form.enabled
    /\ ~db[id].enabled

\* POST /{action_id}/update
ApiUpdate(id, form, faults) ==
    /\ db[id] # NoAction
    /\ calls < MaxCalls
    /\ calls' = calls + 1
    /\ ReloadOn(UpdateScheduledActionById(db, id, form), faults)
    /\ reenabled' = [reenabled EXCEPT ![id] = @ \/ Reenables(id, form)]
    /\ UNCHANGED <<created, now, running, tasks, onceExecs, notified, cancelled, chats, refusals>>

ApiToggleNoReload(id, enabled, faults) ==
    /\ db[id] # NoAction
    /\ calls < MaxCalls
    /\ calls' = calls + 1
    /\ db' = UpdateScheduledActionById(db, id, [enabled |-> enabled])
    /\ reenabled' = [reenabled EXCEPT ![id] = @ \/ Reenables(id, [enabled |-> enabled])]
    /\ UNCHANGED <<created, now, running, jobs, job_map, tasks, lastLog, raised,
                   onceExecs, lastReload, notified, cancelled, chats, refusals>>

\* POST /{action_id}/toggle
ApiToggle(id, enabled, faults) ==
    /\ db[id] # NoAction
    /\ calls < MaxCalls
    /\ calls' = calls + 1
    /\ ReloadOn(UpdateScheduledActionById(db, id, [enabled |-> enabled]), faults)
    /\ reenabled' = [reenabled EXCEPT ![id] = @ \/ Reenables(id, [enabled |-> enabled])]
    /\ UNCHANGED <<created, now, running, tasks, onceExecs, notified, cancelled, chats, refusals>>

\* DELETE /{action_id}
ApiDelete(id, faults) ==
    /\ db[id] # NoAction
    /\ calls < MaxCalls
    /\ calls' = calls + 1
    /\ ReloadOn(DeleteScheduledActionById(db, id), faults)
    /\ UNCHANGED <<created, now, running, tasks, onceExecs, reenabled, notified,
                   cancelled, chats, refusals>>

\* the rows of a user are deleted in the repository; nobody tells the scheduler
DeleteByUser(user_id) ==
    /\ \E a \in Ids : db[a] # NoAction /\ db[a].user_id = user_id
    /\ calls < MaxCalls
    /\ calls' = calls + 1
    /\ db' = DeleteScheduledActionsByUserId(db, user_id)
    /\ UNCHANGED <<created, now, running, jobs, job_map, tasks, lastLog, raised,
                   onceExecs, reenabled, lastReload, notified, cancelled, chats, refusals>>

Tick ==
    /\ now < MaxTime
    /\ now' = now + 1
    /\ UNCHANGED <<db, calls, created, running, jobs, job_map, tasks, lastLog, raised,
                   onceExecs, reenabled, lastReload, notified, cancelled, chats, refusals>>

\* ------------------------------------------------------------------ fires
InstancesUncounted(ts, job_id) == 0

\* the executor's count of running instances of a job
Instances(ts, job_id) == Cardinality({i \in 1..Len(ts) : ts[i].job_id = job_id})

IsDue(job, nowSec) == job.next_run_time # NoTime /\ job.next_run_time <= nowSec

\* BaseScheduler._process_jobs over the jobs todo: a due job is submitted to
\* the executor unless max_instances of it are running, then it gets its next
\* fire time or, when its trigger is exhausted, is removed
RECURSIVE ProcessDue(_, _, _, _)
ProcessDue(todo, done, ts, nowSec) ==
    IF todo = << >> THEN [jobs |-> done, tasks |-> ts]
    ELSE LET job == Head(todo) IN
         IF ~IsDue(job, nowSec)
         THEN ProcessDue(Tail(todo), Append(done, job), ts, nowSec)
         ELSE LET run_time == LastRunTime(job, nowSec)
                  next == NextFire(job.trigger, run_time)
                  ts1 == IF Instances(ts, job.id) >= max_instances THEN ts
                         ELSE Append(ts, [job_id |-> job.id, id |-> job.args,
                                          run_time |-> run_time,
                                          phase |-> "queued",
                                          manual |-> FALSE,
                                          action |-> NoAction])
                  done1 == IF next = NoTime THEN done
                           ELSE Append(done, [job EXCEPT !.next_run_time = next])
              IN  ProcessDue(Tail(todo), done1, ts1, nowSec)

\* the scheduler's dispatch pass
ProcessJobs ==
    /\ running
    /\ \E i \in 1..Len(jobs) : IsDue(jobs[i], NowSec)
    /\ LET r == ProcessDue(jobs, << >>, tasks, NowSec) IN
        /\ jobs' = r.jobs
        /\ tasks' = r.tasks
    /\ UNCHANGED <<db, calls, created, now, running, job_map, lastLog, raised,
                   onceExecs, reenabled, lastReload, notified, cancelled, chats, refusals>>

\* what a fire still reads of the row it fetched once the executor has returned
Snapshot(action) ==
    [id |-> action.id, user_id |-> action.user_id,
     schedule_type |-> action.schedule_type,
     action_type |-> action.action_type, action_config |-> action.action_config]

\* run_coroutine_job: a run more than misfire_grace_time late is not executed
Missed(task, nowSec) == nowSec - task.run_time > misfire_grace_time

\* _execute_action_wrapper on the row it fetched: give up on a missing row,
\* skip a disabled one, execute otherwise
WrapperDecisionNoEnabledCheck(action) ==
    IF action = NoAction THEN "not_found" ELSE "execute"

WrapperDecision(action) ==
    IF action = NoAction THEN "not_found"
    ELSE IF ~action.enabled THEN "disabled"
    ELSE "execute"

\* the outcomes of an awaited executor: a result with a status, or an exception
ExecutorOutcomes == {"success", "error", "raise"}

\* a success result that carries the id of the chat the executor saved to
ChatOutcome == "success_chat"
NewChatId == "chat-1"

EXECUTOR_REGISTRY == {"web_search", "chat_completion", "notification"}

GetExecutorAny(action_type) == TRUE

\* get_executor: None (here FALSE) for a type that is not registered
GetExecutor(action_type) == action_type \in EXECUTOR_REGISTRY

\* the result execute_action gets from the executor (scheduler.py:231-233) or
\* makes of its exception (scheduler.py:251-253), and the line it logs
ExecuteActionResult(action, outcome) ==
    [status |-> IF outcome \in {"success", ChatOutcome} THEN "success" ELSE "error",
     log |-> IF outcome = "raise" THEN Log("Error executing action", action.id)
             ELSE Info("Action execution result", action.id)]

\* _send_completion_notification: the notification executed for a result
Notification(action, status) ==
    [id |-> action.id, user_id |-> action.user_id, status |-> status,
     type |-> IF status = "success" THEN "success" ELSE "warning"]

\* execute_action for an action type without executor (scheduler.py:225-229)
ExecuteActionNoExecutor(d, ns, action) ==
    [db |-> d, notified |-> ns, status |-> "error",
     log |-> Log("No executor found for action type", action.id)]

ExecuteActionAfterRaises(d, ns, action, outcome, faults) ==
    [db |-> d, notified |-> ns, status |-> "raised",
     log |-> Info("Action execution result", action.id)]

\* execute_action from the executor's completion on (scheduler.py:231-253), on
\* the repository d and the notifications ns: the chat_id of the result is
\* written into action_config, then the notification the action's config asks
\* for is executed; an exception of the executor or of the write ends the call
\* with an error result
ExecuteActionAfterChat(d, ns, action, outcome, faults, chat_id) ==
    LET res == ExecuteActionResult(action, outcome)
        failed == [db |-> d, notified |-> ns, status |-> "error",
                   log |-> Log("Error executing action", action.id)]
    IN  IF outcome = "raise" THEN failed
        ELSE IF outcome = ChatOutcome /\ "update_by_id" \in faults THEN failed
        ELSE [db |-> IF outcome = ChatOutcome
                     THEN UpdateScheduledActionById(
                            d, action.id,
                            [action_config |->
                                Merge(action.action_config, [chat_id |-> chat_id])])
                     ELSE d,
              notified |-> IF Get(action.action_config, "notify", FALSE)
                           THEN ns \cup {Notification(action, res.status)}
                           ELSE ns,
              status |-> res.status,
              log |-> res.log]

\* the same for a result whose chat_id is that of a new chat
ExecuteActionAfter(d, ns, action, outcome, faults) ==
    ExecuteActionAfterChat(d, ns, action, outcome, faults, NewChatId)

WrapperBookkeepingSkipOnError(d, js, action, lg, nowSec, faults) ==
    LET job == GetJob(js, JobId(action.id))
        next_run_at == IF job # NoAction THEN job.next_run_time ELSE NoTime
        d1 == UpdateRunTimes(d, action.id, nowSec, next_run_at)
    IN  IF lg.level # "INFO" THEN [db |-> d, log |-> lg]
        ELSE IF action.schedule_type = "once"
             THEN [db |-> UpdateScheduledActionById(d1, action.id,
                                                    [enabled |-> FALSE]),
                   log |-> ThenInfo(lg, "One-time action completed and disabled",
                                    action.id)]
             ELSE [db |-> d1, log |-> lg]

\* _execute_action_wrapper after execute_action (scheduler.py:194-214) on the
\* repository d: the run times are written, then a 'once' action is disabled;
\* an exception on the way is caught at the end and skips the rest
WrapperBookkeeping(d, js, action, lg, nowSec, faults) ==
    LET job == GetJob(js, JobId(action.id))
        next_run_at == IF job # NoAction THEN job.next_run_time ELSE NoTime
        d1 == UpdateRunTimes(d, action.id, nowSec, next_run_at)
    IN  IF "update_run_times" \in faults
        THEN [db |-> d, log |-> Log("Error in action wrapper", action.id)]
        ELSE IF action.schedule_type = "once"
             THEN IF "update_by_id" \in faults
                  THEN [db |-> d1, log |-> Log("Error in action wrapper", action.id)]
                  ELSE [db |-> UpdateScheduledActionById(d1, action.id,
                                                         [enabled |-> FALSE]),
                        log |-> ThenInfo(lg, "One-time action completed and disabled",
                                         action.id)]
             ELSE [db |-> d1, log |-> lg]

\* _execute_action_wrapper up to the awaited executor (scheduler.py:180-231);
\* for an action type without executor there is nothing to await and the fire
\* runs to its end
RunJobStart(i, faults) ==
    /\ i \in 1..Len(tasks)
    /\ tasks[i].phase = "queued"
    /\ ~tasks[i].manual
    /\ LET task == tasks[i]
           action == GetScheduledActionById(db, task.id, faults)
       IN  IF Missed(task, NowSec) THEN
                /\ tasks' = RemoveAt(tasks, i)
                /\ lastLog' = Log("Run time of job was missed", task.id)
                /\ UNCHANGED <<db, jobs, onceExecs>>
           ELSE IF WrapperDecision(action) = "not_found" THEN
                /\ tasks' = RemoveAt(tasks, i)
                /\ IF GetJob(jobs, JobId(task.id)) # NoAction
                   THEN /\ jobs' = WithoutJob(jobs, JobId(task.id))
                        /\ lastLog' = Log("not found, removing from schedule", task.id)
                   ELSE /\ jobs' = jobs
                        /\ lastLog' = Log("Error in action wrapper", task.id)
                /\ UNCHANGED <<db, onceExecs>>
           ELSE IF WrapperDecision(action) = "disabled" THEN
                /\ tasks' = RemoveAt(tasks, i)
                /\ lastLog' = Info("is disabled, skipping execution", task.id)
                /\ UNCHANGED <<db, jobs, onceExecs>>
           ELSE IF ~GetExecutor(action.action_type) THEN
                LET r0 == ExecuteActionNoExecutor(db, notified, Snapshot(action))
                    r == WrapperBookkeeping(r0.db, jobs, Snapshot(action), r0.log,
                                            NowSec, faults)
                IN  /\ tasks' = RemoveAt(tasks, i)
                    /\ db' = r.db
                    /\ lastLog' = r.log
                    /\ UNCHANGED <<jobs, onceExecs>>
           ELSE
                /\ tasks' = [tasks EXCEPT ![i] =
                                [@ EXCEPT !.phase = "executing",
                                           !.action = Snapshot(action)]]
                /\ lastLog' = Info("Executing scheduled action", task.id)
                /\ onceExecs' =
                        IF action.schedule_type = "once" /\ ~reenabled[task.id]
                        THEN [onceExecs EXCEPT ![task.id] = Min(@ + 1, MaxCount)]
                        ELSE onceExecs
                /\ UNCHANGED <<db, jobs>>
    /\ UNCHANGED <<calls, created, now, running, job_map, raised, reenabled,
                   lastReload, notified, cancelled, chats, refusals>>

\* the executor returns and the fire runs to its end
RunJobFinish(i, outcome, faults) ==
    /\ i \in 1..Len(tasks)
    /\ tasks[i].phase = "executing"
    /\ ~tasks[i].manual
    /\ LET action == tasks[i].action
           r0 == ExecuteActionAfter(db, notified, action, outcome, faults)
           r == WrapperBookkeeping(r0.db, jobs, action, r0.log, NowSec, faults)
       IN  /\ db' = r.db
           /\ lastLog' = r.log
           /\ notified' = r0.notified
    /\ tasks' = RemoveAt(tasks, i)
    /\ UNCHANGED <<calls, created, now, running, jobs, job_map, raised, onceExecs,
                   reenabled, lastReload, cancelled, chats, refusals>>

\* ------------------------------------------------------------ specification
NoFaults == {}

Next ==
    \/ Start(NoFaults)
    \/ Reload(NoFaults)
    \/ \E u \in Users, sc \in ScheduleInputs, e \in BOOLEAN :
            ApiCreate(u, ScheduledActionForm(sc, DefaultAction, e), NoFaults)
    \/ \E a \in Ids, sc \in ScheduleInputs : ApiUpdate(a, sc, NoFaults)
    \/ \E a \in Ids, e \in BOOLEAN : ApiToggle(a, e, NoFaults)
    \/ \E a \in Ids : ApiDelete(a, NoFaults)
    \/ \E u \in Users : DeleteByUser(u)
    \/ ProcessJobs
    \/ \E i \in 1..NumIds : RunJobStart(i, NoFaults)
    \/ \E i \in 1..NumIds, o \in ExecutorOutcomes : RunJobFinish(i, o, NoFaults)
    \/ Tick

Spec == Init /\ [][Next]_vars

\* The same system over a repository whose operations may fail: one kind of
\* repository operation raises a storage error during the step.
ReloadFaults == {{"get_enabled"}, {"update_run_times"}}
FetchFaults == {{"get_by_id"}}
BookkeepingFaults == {{"update_run_times"}, {"update_by_id"}}

\* the schedules of the failure scenarios: one recurring, one due at once
FaultySchedules ==
    { [schedule_type |-> "interval",
       schedule_config |-> [value |-> 1, unit |-> "minutes"]],
      [schedule_type |-> "once",
       schedule_config |-> [datetime |-> "1970-01-01T00:00:00Z"]] }

NextFaulty ==
    \/ Start(NoFaults)
    \/ Reload(NoFaults)
    \/ \E u \in Users, sc \in FaultySchedules, e \in BOOLEAN :
            ApiCreate(u, ScheduledActionForm(sc, DefaultAction, e), NoFaults)
    \/ \E a \in Ids, e \in BOOLEAN : ApiToggle(a, e, NoFaults)
    \/ \E a \in Ids : ApiDelete(a, NoFaults)
    \/ ProcessJobs
    \/ \E i \in 1..NumIds : RunJobStart(i, NoFaults)
    \/ \E i \in 1..NumIds, o \in ExecutorOutcomes : RunJobFinish(i, o, NoFaults)
    \/ Tick
    \/ \E F \in ReloadFaults : ~running /\ Start(F)
    \/ \E F \in ReloadFaults : Reload(F)
    \/ \E F \in ReloadFaults, a \in Ids, e \in BOOLEAN : ApiToggle(a, e, F)
    \/ \E F \in FetchFaults, i \in 1..NumIds : RunJobStart(i, F)
    \/ \E F \in BookkeepingFaults, i \in 1..NumIds, o \in ExecutorOutcomes :
            RunJobFinish(i, o, F)

SpecFaulty == Init /\ [][NextFaulty]_vars

\* ------------------------------------------------- manual runs, shutdown
\* a manual run that awaits its executor
ManualTask(action, nowSec) ==
    [job_id |-> <<"manual", action.id>>, id |-> action.id, run_time |-> nowSec,
     phase |-> "executing", manual |-> TRUE, action |-> Snapshot(action)]

\* POST /{action_id}/test up to the awaited executor: execute_action is called
\* on the row as it is read; without executor the call ends at once
TestStart(id, faults) ==
    /\ calls < MaxCalls
    /\ calls' = calls + 1
    /\ LET action == GetScheduledActionById(db, id, faults) IN
       IF action = NoAction
       THEN UNCHANGED <<tasks, lastLog>>
       ELSE IF ~GetExecutor(action.action_type)
            THEN /\ lastLog' = ExecuteActionNoExecutor(db, notified,
                                                       Snapshot(action)).log
                 /\ UNCHANGED tasks
            ELSE /\ tasks' = Append(tasks, ManualTask(action, NowSec))
                 /\ lastLog' = Info("Executing scheduled action", id)
    /\ UNCHANGED <<db, created, now, running, jobs, job_map, raised, onceExecs,
                   reenabled, lastReload, notified, cancelled, chats, refusals>>

TestFinishAsFire(i, outcome, faults) ==
    /\ i \in 1..Len(tasks)
    /\ tasks[i].phase = "executing"
    /\ tasks[i].manual
    /\ LET action == tasks[i].action
           r0 == ExecuteActionAfter(db, notified, action, outcome, faults)
           r == WrapperBookkeeping(r0.db, jobs, action, r0.log, NowSec, faults)
       IN  /\ db' = r.db
           /\ lastLog' = r.log
           /\ notified' = r0.notified
    /\ tasks' = RemoveAt(tasks, i)
    /\ UNCHANGED <<calls, created, now, running, jobs, job_map, raised, onceExecs,
                   reenabled, lastReload, cancelled, chats, refusals>>

\* POST /{action_id}/test from the executor's completion to the response
TestFinish(i, outcome, faults) ==
    /\ i \in 1..Len(tasks)
    /\ tasks[i].phase = "executing"
    /\ tasks[i].manual
    /\ LET r0 == ExecuteActionAfter(db, notified, tasks[i].action, outcome, faults)
       IN  /\ db' = r0.db
           /\ lastLog' = r0.log
           /\ notified' = r0.notified
    /\ tasks' = RemoveAt(tasks, i)
    /\ UNCHANGED <<calls, created, now, running, jobs, job_map, raised, onceExecs,
                   reenabled, lastReload, cancelled, chats, refusals>>

\* ScheduledActions.insert_new_scheduled_action called without the checks of
\* the route /create; nobody tells the scheduler
InsertDirect(user_id, form) ==
    /\ created < NumIds
    /\ calls < MaxCalls
    /\ calls' = calls + 1
    /\ created' = created + 1
    /\ db' = InsertNewScheduledAction(db, created + 1, user_id, form)
    /\ UNCHANGED <<now, running, jobs, job_map, tasks, lastLog, raised, onceExecs,
                   reenabled, lastReload, notified, cancelled, chats, refusals>>

\* the fires of the timer path that are awaiting their executor
FiresInFlight(ts) ==
    {ts[i].id : i \in {j \in 1..Len(ts) : ts[j].phase = "executing" /\ ~ts[j].manual}}

\* AsyncIOExecutor.shutdown: the futures of the submitted jobs are cancelled,
\* whatever wait says; the manual runs are no jobs of the scheduler
CancelPendingFutures(ts) == SelectSeq(ts, LAMBDA t : t.manual)

\* SchedulerService.stop
Stop ==
    /\ calls < MaxCalls
    /\ calls' = calls + 1
    /\ IF ~running
       THEN UNCHANGED <<running, jobs, job_map, tasks, lastLog, cancelled>>
       ELSE /\ jobs' = RemoveAllJobs(jobs)
            /\ tasks' = CancelPendingFutures(tasks)
            /\ cancelled' = cancelled \cup FiresInFlight(tasks)
            /\ running' = FALSE
            /\ job_map' = EmptyDict
            /\ lastLog' = Info("Scheduler service stopped", 0)
    /\ UNCHANGED <<db, created, now, raised, onceExecs, reenabled, lastReload,
                   notified, chats, refusals>>

\* the requests of the execution scenarios
ExecSchedules ==
    { [schedule_type |-> "interval",
       schedule_config |-> [value |-> 1, unit |-> "minutes"]],
      [schedule_type |-> "once",
       schedule_config |-> [datetime |-> "1970-01-01T00:00:00Z"]] }

ExecActions ==
    { [action_type |-> "web_search",
       action_config |-> [query |-> "q", notify |-> TRUE]] }

UnregisteredActions ==
    { [action_type |-> "email", action_config |-> [notify |-> TRUE]] }

ConfigEdits ==
    { [action_config |-> [query |-> "q2", engine |-> "brave"]] }

ExecOutcomes == ExecutorOutcomes \cup {ChatOutcome}

\* a storage error of update_scheduled_action_by_id during the step, or none
ExecFaults == {NoFaults, {"update_by_id"}}

NextExec ==
    \/ ~running /\ Start(NoFaults)
    \/ \E u \in Users, sc \in ExecSchedules, ac \in ExecActions :
            ApiCreate(u, ScheduledActionForm(sc, ac, TRUE), NoFaults)
    \/ \E u \in Users, sc \in ExecSchedules, ac \in UnregisteredActions :
            InsertDirect(u, ScheduledActionForm(sc, ac, TRUE))
    \/ \E a \in Ids, f \in ConfigEdits : ApiUpdate(a, f, NoFaults)
    \/ \E a \in Ids : TestStart(a, NoFaults)
    \/ \E i \in 1..Len(tasks), o \in ExecOutcomes, F \in ExecFaults : TestFinish(i, o, F)
    \/ ProcessJobs
    \/ \E i \in 1..Len(tasks) : RunJobStart(i, NoFaults)
    \/ \E i \in 1..Len(tasks), o \in ExecOutcomes, F \in ExecFaults :
            RunJobFinish(i, o, F)
    \/ Stop
    \/ Tick

SpecExec == Init /\ [][NextExec]_vars

\* ------------------------------------------------------------------ claims
HasTimer(js, a) == GetJob(js, JobId(a)) # NoAction

\* a step in which a route of the API changed the action set and reloaded
\* (each route is tried only on a step that shows the change it makes)
ApiStep(F) ==
    /\ calls' # calls
    /\ \/ /\ created' # created
          /\ \E u \in Users, sc \in ScheduleInputs, e \in BOOLEAN :
                /\ sc.schedule_type \in valid_schedule_types
                /\ db'[created + 1].schedule_type = sc.schedule_type
                /\ db'[created + 1].enabled = e
                /\ ApiCreate(u, ScheduledActionForm(sc, DefaultAction, e), F)
       \/ /\ created' = created
          /\ \E a \in Ids :
                /\ db[a] # NoAction
                /\ \/ /\ db'[a] = NoAction
                      /\ ApiDelete(a, F)
                   \/ /\ db'[a] # NoAction
                      /\ \/ \E sc \in ScheduleInputs :
                                /\ db'[a].schedule_type = sc.schedule_type
                                /\ db'[a].schedule_config = sc.schedule_config
                                /\ ApiUpdate(a, sc, F)
                         \/ ApiToggle(a, db'[a].enabled, F)

\* a step in which reload_jobs ran to its end, called by itself, by start()
\* or by a route of the API after its mutation
ReloadStep(F) ==
    \/ calls' # calls /\ Reload(F)
    \/ running' # running /\ Start(F)
    \/ ApiStep(F)

\* the row a has a schedule the Trigger Calculator accepts
ValidSchedule(d, a) == CreateTrigger(d[a], NowSec) # NoTrigger

IsEnabled(d, a) == d[a] # NoAction /\ d[a].enabled

\* C1: at most one timer is registered for any action id, in every reachable
\* state: armed in the job store of the running scheduler, or pending while it
\* is not running.  Registering a timer for an id replaces the one it had, and
\* a reload that ran while a fire of the action was in flight leaves one timer.
C1_OneTimerPerAction ==
    \A a \in Ids : Cardinality(JobIndex(jobs, JobId(a))) <= 1

\* a reload has re-armed the timer of a 'once' action whose fire is in flight
C1_Witness ==
    \E i \in 1..Len(tasks) :
        /\ running
        /\ tasks[i].phase = "executing"
        /\ tasks[i].action.schedule_type = "once"
        /\ Cardinality(JobIndex(jobs, tasks[i].job_id)) = 1

\* C2: when a fire starts for an action that is in the repository with
\* enabled = false, the fire ends there: no executor is invoked, the repository
\* is not written (run times and enabled flag included), no exception escapes.
C2_DisabledNeverFires ==
    [][\A i \in 1..NumIds :
         ( /\ i \in 1..Len(tasks)
           /\ tasks[i].phase = "queued"
           /\ ~Missed(tasks[i], NowSec)
           /\ db[tasks[i].id] # NoAction
           /\ ~db[tasks[i].id].enabled
           /\ RunJobStart(i, NoFaults) )
         => ( /\ tasks' = RemoveAt(tasks, i)
              /\ db' = db
              /\ onceExecs' = onceExecs
              /\ raised' = raised
              /\ lastLog'.level = "INFO" )]_vars

\* a fire has just skipped a disabled action
C2_Witness ==
    \E a \in Ids :
        /\ lastLog = Info("is disabled, skipping execution", a)
        /\ db[a] # NoAction
        /\ ~db[a].enabled

\* C3: the timer path invokes the executor of a 'once' action that no API call
\* has re-enabled at most one time, whatever reloads and fires interleave.
C3_OnceFiresAtMostOnce ==
    \A a \in Ids : onceExecs[a] <= 1

\* a 'once' action has executed and is disabled while a reload that ran during
\* its fire has armed its timer again
C3_Witness ==
    \E a \in Ids :
        /\ onceExecs[a] = 1
        /\ db[a] # NoAction
        /\ db[a].schedule_type = "once"
        /\ ~db[a].enabled
        /\ ~reenabled[a]
        /\ HasTimer(jobs, a)
        /\ running

\* C4: the scheduler sets enabled = false only when the fire of a 'once' action
\* completes, and it does so at every such completion, whether the executor
\* returned success, returned an error or raised; until then the flag stays.
C4_OnceDisabledAfterAttempt ==
    [][/\ \A i \in 1..NumIds, o \in ExecutorOutcomes :
            ( /\ i \in 1..Len(tasks)
              /\ tasks[i].phase = "executing"
              /\ tasks[i].action.schedule_type = "once"
              /\ db[tasks[i].id] # NoAction
              /\ RunJobFinish(i, o, NoFaults) )
            => ~db'[tasks[i].id].enabled
       /\ \A a \in Ids :
            ( /\ IsEnabled(db, a)
              /\ db'[a] # NoAction
              /\ ~db'[a].enabled
              /\ calls' = calls )
            => \E i \in 1..Len(tasks) :
                    /\ tasks[i].id = a
                    /\ tasks[i].phase = "executing"
                    /\ tasks[i].action.schedule_type = "once"
                    /\ tasks' = RemoveAt(tasks, i)]_vars

\* a 'once' action is disabled after the one fire it had, whose executor raised
C4_Witness ==
    \E a \in Ids :
        /\ lastLog = Log("Error executing action", a)
        /\ db[a] # NoAction
        /\ db[a].schedule_type = "once"
        /\ ~db[a].enabled
        /\ onceExecs[a] = 1

\* C5: when reload_jobs completes, the timers are exactly those of the rows
\* that are enabled and whose schedule yields a trigger, each with the trigger
\* computed by this reload; no other timer survives, and none at all when no
\* row is enabled.
C5_ReloadReplacesTimerSet ==
    [][ReloadStep(NoFaults) =>
        Timers(jobs') =
            {[id |-> JobId(a), trigger |-> CreateTrigger(db'[a], NowSec)] :
                a \in {b \in Ids : IsEnabled(db', b) /\ ValidSchedule(db', b)}}]_vars

\* a reload found no enabled row and left no timer, although a row had one
C5_Witness ==
    /\ running
    /\ jobs = << >>
    /\ lastLog = Info("Found enabled scheduled actions", 0)
    /\ \E a \in Ids :
        /\ db[a] # NoAction
        /\ ~db[a].enabled
        /\ db[a].next_run_at # NoTime

C7_BadScheduleSkipped ==
    [][( /\ ReloadStep(NoFaults)
         /\ \E a \in Ids : IsEnabled(db', a) /\ ~ValidSchedule(db', a) )
       => /\ raised' = raised
          /\ \A a \in Ids :
                IsEnabled(db', a) => (HasTimer(jobs', a) <=> ValidSchedule(db', a))]_vars

\* a reload has skipped one enabled action and armed another
C7_Witness ==
    \E a, b \in Ids :
        /\ lastLog = Log("Could not create trigger", 0)
        /\ IsEnabled(db, a) /\ ~ValidSchedule(db, a) /\ ~HasTimer(jobs, a)
        /\ IsEnabled(db, b) /\ ValidSchedule(db, b) /\ HasTimer(jobs, b)

\* C8: when get_enabled_scheduled_actions fails during reload_jobs, the failure
\* is logged, nothing is raised, and the timers that were armed before the
\* reload are still armed after it.
C8_FailedFetchKeepsTimers ==
    [][ReloadStep({"get_enabled"}) =>
        /\ raised' = raised
        /\ lastLog' = Log("Error reloading jobs", 0)
        /\ Timers(jobs') = Timers(jobs)]_vars

\* C9: every fire the scheduler dispatches comes from a due timer that the most
\* recent reload_jobs registered; a timer a completed reload removed or
\* superseded dispatches nothing, while a fire already in flight may finish.
C9_DispatchFromCurrentTimers ==
    [][(Len(tasks') > Len(tasks) /\ ProcessJobs) =>
        \A k \in (Len(tasks) + 1)..Len(tasks') :
            \E i \in 1..Len(jobs) :
                /\ jobs[i].id = tasks'[k].job_id
                /\ IsDue(jobs[i], NowSec)
                /\ [id |-> jobs[i].id, trigger |-> jobs[i].trigger] \in lastReload]_vars

\* the fire of an interval action is in flight although a reload has removed
\* its timer
C9_Witness ==
    \E i \in 1..Len(tasks) :
        /\ running
        /\ tasks[i].phase = "executing"
        /\ tasks[i].action.schedule_type = "interval"
        /\ ~HasTimer(jobs, tasks[i].id)
        /\ \A t \in lastReload : t.id # tasks[i].job_id

\* C10: when a fire starts for an action id that is not in the repository, it
\* ends there: no executor is invoked, the repository is not written, no
\* exception escapes, and afterwards no timer is registered for that id.
C10_OrphanTimerRemoved ==
    [][\A i \in 1..NumIds :
         ( /\ i \in 1..Len(tasks)
           /\ tasks[i].phase = "queued"
           /\ ~Missed(tasks[i], NowSec)
           /\ db[tasks[i].id] = NoAction
           /\ RunJobStart(i, NoFaults) )
         => ( /\ tasks' = RemoveAt(tasks, i)
              /\ db' = db
              /\ onceExecs' = onceExecs
              /\ raised' = raised
              /\ ~HasTimer(jobs', tasks[i].id) )]_vars

\* a fire has found its action gone and removed the timer that was still armed
C10_Witness ==
    \E a \in Ids :
        /\ lastLog = Log("not found, removing from schedule", a)
        /\ db[a] = NoAction
        /\ ~HasTimer(jobs, a)
        /\ running

\* the fire in flight as task i of the timer path
InFlight(i) ==
    /\ i \in 1..Len(tasks)
    /\ tasks[i].phase = "executing"
    /\ ~tasks[i].manual

\* C11: when the fire of an action that exists and is enabled completes, the
\* stored last_run_at is the time of completion and the stored next_run_at is
\* the next fire time of the action's timer, null when the timer is gone.
C11_RunTimesPersisted ==
    [][\A i \in 1..NumIds :
         ( /\ InFlight(i)
           /\ IsEnabled(db, tasks[i].id)
           /\ \E o \in ExecutorOutcomes : RunJobFinish(i, o, NoFaults) )
         => /\ db'[tasks[i].id].last_run_at = NowSec
            /\ db'[tasks[i].id].next_run_at =
                    IF HasTimer(jobs, tasks[i].id)
                    THEN GetJob(jobs, JobId(tasks[i].id)).next_run_time
                    ELSE NoTime]_vars

\* C12: when the write of the run times fails during a fire, the rest of the
\* fire still runs: an action with schedule_type 'once' is disabled.
C12_FailedWriteSkipsOnlyItself ==
    [][\A i \in 1..NumIds, o \in ExecutorOutcomes :
         ( /\ InFlight(i)
           /\ tasks[i].action.schedule_type = "once"
           /\ db[tasks[i].id] # NoAction
           /\ RunJobFinish(i, o, {"update_run_times"}) )
         => ~db'[tasks[i].id].enabled]_vars

\* C18: start() on a scheduler that is not running arms every enabled action
\* with a valid schedule, each with a next fire time, and sets _running;
\* start() on a running scheduler leaves the timers, job_map, the repository,
\* the fires in flight and _running as they are.
C18_StartIdempotent ==
    [][(calls' = calls /\ running' /\ Len(tasks') = Len(tasks) /\ Start(NoFaults))
        => IF running
           THEN UNCHANGED <<db, jobs, job_map, running, tasks, lastReload, raised>>
           ELSE /\ Timers(jobs') =
                    {[id |-> JobId(a), trigger |-> CreateTrigger(db'[a], NowSec)] :
                        a \in {b \in Ids : IsEnabled(db', b) /\ ValidSchedule(db', b)}}
                /\ \A k \in 1..Len(jobs') : jobs'[k].next_run_time # NoTime]_vars

\* start() was called on a running scheduler that has a timer armed
C18_Witness ==
    /\ running
    /\ lastLog = Log("Scheduler service is already running", 0)
    /\ jobs # << >>

\* C20: at no time are two fires of the timer path executing for one action
\* id, whatever reloads and dispatches interleave; fires of different actions
\* overlap.
C20_NoConcurrentFiresPerAction ==
    \A a \in Ids :
        Cardinality({i \in 1..Len(tasks) : InFlight(i) /\ tasks[i].id = a}) <= 1

\* an interval action is due again, with its timer re-armed by a reload, while
\* its fire is still in flight
C20_Witness ==
    \E i \in 1..Len(tasks) :
        /\ InFlight(i)
        /\ HasTimer(jobs, tasks[i].id)
        /\ IsDue(GetJob(jobs, tasks[i].job_id), NowSec)
        /\ [id |-> tasks[i].job_id,
            trigger |-> GetJob(jobs, tasks[i].job_id).trigger] \in lastReload

\* a task whose executor is awaited, of the timer path or of a manual run
Executing(i) == i \in 1..Len(tasks) /\ tasks[i].phase = "executing"

\* execute_action ends for task i in this step with the outcome o of its
\* executor, under the storage faults F
ExecuteEnds(i, o, F) ==
    /\ Executing(i)
    /\ tasks' = RemoveAt(tasks, i)
    /\ IF tasks[i].manual THEN TestFinish(i, o, F) ELSE RunJobFinish(i, o, F)

\* the outcome does not come from an executor that returned success
Failing(o, F) == o \in {"error", "raise"} \/ (o = ChatOutcome /\ "update_by_id" \in F)

C14_ChatIdWriteKeepsKeys ==
    [][\A i \in 1..(NumIds + MaxCalls) :
         ( /\ Executing(i)
           /\ db[tasks[i].id] # NoAction
           /\ ExecuteEnds(i, ChatOutcome, NoFaults) )
         => /\ Get(db'[tasks[i].id].action_config, "chat_id", "") = NewChatId
            /\ \A k \in (DOMAIN db[tasks[i].id].action_config) \ {"chat_id"} :
                    /\ k \in DOMAIN db'[tasks[i].id].action_config
                    /\ db'[tasks[i].id].action_config[k]
                            = db[tasks[i].id].action_config[k]]_vars

\* C15: whenever execute_action ends for an action whose action_config has
\* notify = true, the notification for the status of its result has been
\* executed, whether the result is a success or an error.
C15_NotificationIndependentOfOutcome ==
    [][\A i \in 1..(NumIds + MaxCalls), o \in ExecOutcomes, F \in ExecFaults :
         ( /\ Executing(i)
           /\ Get(tasks[i].action.action_config, "notify", FALSE)
           /\ ExecuteEnds(i, o, F) )
         => Notification(tasks[i].action,
                         ExecuteActionAfter(db, notified, tasks[i].action, o, F).status)
                \in notified']_vars

\* a manual run of the row a is answered in this step
ManualRunStarts(a) ==
    /\ calls' # calls
    /\ created' = created
    /\ db' = db
    /\ running' = running
    /\ db[a] # NoAction
    /\ TestStart(a, NoFaults)

\* C16: execute_action on an action whose action_type has no registered
\* executor returns a result with status error, logs it, awaits no executor,
\* executes no notification, raises nothing and leaves the repository and the
\* timers as they are.
C16_UnknownActionType ==
    [][\A a \in Ids :
         (ManualRunStarts(a) /\ db[a].action_type \notin EXECUTOR_REGISTRY)
         => /\ ExecuteActionNoExecutor(db, notified, Snapshot(db[a])).status = "error"
            /\ lastLog' = Log("No executor found for action type", a)
            /\ tasks' = tasks
            /\ notified' = notified
            /\ raised' = raised
            /\ db' = db
            /\ jobs' = jobs]_vars

\* a manual run of an action of unregistered type has been answered; the
\* action was never scheduled
C16_Witness ==
    \E a \in Ids :
        /\ lastLog = Log("No executor found for action type", a)
        /\ db[a] # NoAction
        /\ db[a].action_type \notin EXECUTOR_REGISTRY
        /\ db[a].last_run_at = NoTime
        /\ ~HasTimer(jobs, a)

\* the rows agree on existence, enabled flag and run times
SameScheduling(d1, d2) ==
    \A a \in Ids :
        /\ (d1[a] = NoAction) <=> (d2[a] = NoAction)
        /\ d1[a] # NoAction =>
            /\ d1[a].enabled = d2[a].enabled
            /\ d1[a].last_run_at = d2[a].last_run_at
            /\ d1[a].next_run_at = d2[a].next_run_at
            /\ d1[a].schedule_type = d2[a].schedule_type

\* C17: a manual run, from the request to the response, leaves the enabled
\* flag, last_run_at and next_run_at of every action and the timers as they
\* are, for every schedule_type and every outcome.
C17_ManualRunFrame ==
    [][/\ \A a \in Ids :
            ManualRunStarts(a)
            => SameScheduling(db, db') /\ jobs' = jobs /\ job_map' = job_map
       /\ \A i \in 1..(NumIds + MaxCalls) :
            ( /\ Executing(i)
              /\ tasks[i].manual
              /\ tasks' = RemoveAt(tasks, i)
              /\ \E o \in ExecOutcomes, F \in ExecFaults : TestFinish(i, o, F) )
            => SameScheduling(db, db') /\ jobs' = jobs /\ job_map' = job_map]_vars

\* a manual run of a 'once' action has written the chat_id of its result; the
\* action was never fired by its timer and is still enabled
C17_Witness ==
    \E a \in Ids :
        /\ IsEnabled(db, a)
        /\ db[a].schedule_type = "once"
        /\ "chat_id" \in DOMAIN db[a].action_config
        /\ onceExecs[a] = 0
        /\ lastLog = Info("Action execution result", a)

\* C19: stop() on a stopped scheduler changes nothing; on a running scheduler
\* it leaves no timer, an empty job_map and _running unset, and every fire that
\* was in flight has finished: none is cut off.
C19_StopDrains ==
    [][(calls' # calls /\ created' = created /\ db' = db /\ Stop)
        => IF ~running
           THEN UNCHANGED <<running, jobs, job_map, tasks, cancelled>>
           ELSE /\ jobs' = << >>
                /\ job_map' = EmptyDict
                /\ ~running'
                /\ FiresInFlight(tasks) = {}
                /\ cancelled' = cancelled]_vars

\* the fires a dispatch pass over the job store js would submit at nowSec
FiresOf(js, nowSec) == ProcessDue(js, << >>, << >>, nowSec).tasks

\* C21: when reload_jobs has run on a running scheduler, every enabled 'once'
\* action whose datetime is in the past, however far, has a timer, and the
\* dispatch pass that follows submits a fire for it that is executed.
C21_PastOnceStillFires ==
    [][(running' /\ ReloadStep(NoFaults)) =>
        \A a \in Ids :
            ( /\ IsEnabled(db', a)
              /\ db'[a].schedule_type = "once"
              /\ ValidSchedule(db', a)
              /\ CreateTrigger(db'[a], NowSec).run_date <= NowSec )
            => /\ HasTimer(jobs', a)
               /\ \E k \in 1..Len(FiresOf(jobs', NowSec)) :
                    /\ FiresOf(jobs', NowSec)[k].id = a
                    /\ ~Missed(FiresOf(jobs', NowSec)[k], NowSec)]_vars

\* the timers a reload arms for the rows of d: one for every enabled row whose
\* schedule yields a trigger
ExpectedTimers(d) ==
    {[id |-> JobId(a), trigger |-> CreateTrigger(d[a], NowSec)] :
        a \in {b \in Ids : IsEnabled(d, b) /\ ValidSchedule(d, b)}}

\* C22: when the write of next_run_at fails during a reload of the running
\* scheduler, the reload still arms the timer of every enabled action with a
\* valid schedule, the failed actions included, and raises nothing; the stored
\* run times stay as they were.
C22_AdvisoryWrite ==
    [][(running /\ ReloadStep({"update_run_times"})) =>
        /\ raised' = raised
        /\ Timers(jobs') = ExpectedTimers(db')
        /\ \A k \in 1..Len(jobs') : jobs'[k].next_run_time # NoTime
        /\ \A a \in Ids :
            (db[a] # NoAction /\ db'[a] # NoAction) =>
                /\ db'[a].next_run_at = db[a].next_run_at
                /\ db'[a].last_run_at = db[a].last_run_at]_vars

\* a reload whose writes failed has armed two actions
C22_Witness ==
    /\ running
    /\ lastLog = Log("Error scheduling action", 0)
    /\ \A a \in Ids : IsEnabled(db, a) /\ HasTimer(jobs, a)

\* --------------------------------------------------- the event loop thread
\* The fires, the dispatch pass, reload_jobs and the routes are coroutines of
\* one event loop.  WebSearchExecutor.execute calls its search function as a
\* plain function (action_executors.py:71-126) and the other executors await
\* nothing that suspends: from the start of a fire to its end the thread of the
\* loop runs nothing else, however long the call takes.
LoopBlocked == \E i \in 1..Len(tasks) : InFlight(i)

\* the dispatch pass, run by the event loop
Dispatch == ~LoopBlocked /\ ProcessJobs

\* reload_jobs, run by the event loop
LoopReload == ~LoopBlocked /\ Reload(NoFaults)

NextLoop ==
    \/ ~LoopBlocked /\ ~running /\ Start(NoFaults)
    \/ \E u \in Users, sc \in ExecSchedules, ac \in ExecActions :
            ~LoopBlocked /\ ApiCreate(u, ScheduledActionForm(sc, ac, TRUE), NoFaults)
    \/ LoopReload
    \/ Dispatch
    \/ \E i \in 1..Len(tasks) : ~LoopBlocked /\ RunJobStart(i, NoFaults)
    \/ \E i \in 1..Len(tasks), o \in ExecOutcomes : RunJobFinish(i, o, NoFaults)
    \/ Tick

SpecLoop == Init /\ [][NextLoop]_vars

\* C23: while the executor of a fire of action A has not returned, the due
\* timer of every other action B can still be dispatched.
C23_HungExecutorStallsOnlyItself ==
    \A i \in 1..Len(tasks) :
        ( /\ InFlight(i)
          /\ running
          /\ \E k \in 1..Len(jobs) :
                jobs[k].args # tasks[i].id /\ IsDue(jobs[k], NowSec) )
        => ENABLED Dispatch

\* ------------------------------------------------------ trigger scenarios
\* the schedules of the trigger scenarios: interval configs with and without
\* their keys, cron expressions that use the day fields
TriggerSchedules ==
    { [schedule_type |-> "interval", schedule_config |-> EmptyDict],
      [schedule_type |-> "interval",
       schedule_config |-> [value |-> 1, unit |-> "minutes"]],
      [schedule_type |-> "interval",
       schedule_config |-> [value |-> 1, unit |-> "fortnights"]],
      [schedule_type |-> "interval",
       schedule_config |-> [value |-> 0, unit |-> "jitter"]],
      [schedule_type |-> "cron",
       schedule_config |-> [expression |-> <<"*", "*", "*", "*", "*">>]],
      [schedule_type |-> "cron",
       schedule_config |-> [expression |-> <<"0", "9", "*", "*", "*">>]],
      [schedule_type |-> "cron",
       schedule_config |-> [expression |-> <<"0", "0", "*", "*", "1-5">>]],
      [schedule_type |-> "cron",
       schedule_config |-> [expression |-> <<"0", "0", "*", "*", "0,6">>]],
      [schedule_type |-> "cron",
       schedule_config |-> [expression |-> <<"0", "0", "5", "*", "0">>]],
      [schedule_type |-> "cron",
       schedule_config |-> [expression |-> <<"0", "0", "*", "*", "7">>]] }

NextTrigger ==
    \/ ~running /\ Start(NoFaults)
    \/ \E u \in Users, sc \in TriggerSchedules :
            ApiCreate(u, ScheduledActionForm(sc, DefaultAction, TRUE), NoFaults)
    \/ ProcessJobs
    \/ \E i \in 1..Len(tasks) : RunJobStart(i, NoFaults)
    \/ \E i \in 1..Len(tasks) : RunJobFinish(i, "success", NoFaults)
    \/ Tick

SpecTrigger == Init /\ [][NextTrigger]_vars

\* C24: an interval schedule without value and unit gets a trigger of 60
\* minutes, and one whose unit is none of seconds, minutes, hours, days, weeks
\* gets no trigger and no timer.
C24_IntervalDefaultsAndUnits ==
    \A a \in Ids :
        (db[a] # NoAction /\ db[a].schedule_type = "interval") =>
            /\ db[a].schedule_config = EmptyDict =>
                /\ CreateTrigger(db[a], NowSec) # NoTrigger
                /\ CreateTrigger(db[a], NowSec).seconds = 60 * 60
            /\ Get(db[a].schedule_config, "unit", "minutes") \notin IntervalUnits =>
                /\ CreateTrigger(db[a], NowSec) = NoTrigger
                /\ ~HasTimer(jobs, a)

\* the day of the week of day d as cron numbers it: 0 is Sunday, and so is 7
WeekdaySundayFirst(d) == (d + 4) % 7

\* standard cron: the month matches, and the day of the month and the day of
\* the week both match, or either of them when both fields are restricted
StandardCronDayMatches(fields, d) ==
    /\ FieldMatches(fields[4], MonthOf(d))
    /\ LET dom == FieldMatches(fields[3], DayOfMonth(d))
           dow == \/ FieldMatches(fields[5], WeekdaySundayFirst(d))
                  \/ WeekdaySundayFirst(d) = 0 /\ FieldMatches(fields[5], 7)
       IN  IF fields[3] # "*" /\ fields[5] # "*" THEN dom \/ dow ELSE dom /\ dow

\* the reference evaluator: the first instant >= startSec a standard cron
\* fires at
StandardCronFirstAtOrAfter(fields, startSec) ==
    FirstMatch(fields, startSec,
               {d \in 0..(CronScanDays - 1) : StandardCronDayMatches(fields, d)})

\* C25: the next fire time of every armed cron timer, and the one after it,
\* are those a standard cron evaluator computes for the same expression.
C25_CronMatchesReference ==
    \A k \in 1..Len(jobs) :
        (running /\ jobs[k].trigger.kind = "cron") =>
            /\ FirstFire(jobs[k].trigger, NowSec)
                = StandardCronFirstAtOrAfter(jobs[k].trigger.fields, NowSec)
            /\ NextFire(jobs[k].trigger, FirstFire(jobs[k].trigger, NowSec))
                = StandardCronFirstAtOrAfter(jobs[k].trigger.fields,
                        FirstFire(jobs[k].trigger, NowSec) + 1)

\* ------------------------------------------------------------ observability
\* None of Python for a status
NoStatus == [status |-> "none"]

GetJobStatusMapOnly(map, js, action_id) ==
    IF action_id \notin DOMAIN map THEN NoStatus
    ELSE [id |-> map[action_id], next_run_time |-> NoTime, trigger |-> NoTrigger]

\* SchedulerService.get_job_status: None without an entry in job_map, None
\* when the scheduler has no job of the id the entry names
GetJobStatus(map, js, action_id) ==
    IF action_id \notin DOMAIN map THEN NoStatus
    ELSE IF GetJob(js, map[action_id]) = NoAction THEN NoStatus
    ELSE [id |-> GetJob(js, map[action_id]).id,
          next_run_time |-> GetJob(js, map[action_id]).next_run_time,
          trigger |-> GetJob(js, map[action_id]).trigger]

\* C26: get_job_status(a) returns a status exactly when a timer is registered
\* for a, with the next fire time and the trigger of that timer, and None
\* otherwise, in every reachable state: also when a fire has removed the timer
\* of a deleted action or a one-shot timer was consumed and job_map still has
\* the entry.
C26_StatusIffTimer ==
    \A a \in Ids :
        IF HasTimer(jobs, a)
        THEN GetJobStatus(job_map, jobs, a) =
                [id |-> JobId(a),
                 next_run_time |-> GetJob(jobs, JobId(a)).next_run_time,
                 trigger |-> GetJob(jobs, JobId(a)).trigger]
        ELSE GetJobStatus(job_map, jobs, a) = NoStatus

\* job_map still names the timer of an action whose timer is gone: a fire
\* found the action deleted and removed it
C26_Witness ==
    \E a \in Ids :
        /\ running
        /\ a \in DOMAIN job_map
        /\ ~HasTimer(jobs, a)
        /\ lastLog = Log("not found, removing from schedule", a)

\* -------------------------------------------------- the registered executors
\* None of Python for a chat id
NoChat == ""

\* the ids insert_new_chat hands out, in their order
MaxChats == 4
ChatIdOf == [n \in 1..MaxChats |->
                CASE n = 1 -> "chat-1" [] n = 2 -> "chat-2"
                  [] n = 3 -> "chat-3" [] OTHER -> "chat-4"]

\* the engines WebSearchExecutor.execute has a branch for, and those of them
\* that need no key or URL from the configuration
SupportedEngines ==
    {"ollama_cloud", "searxng", "brave", "google_pse", "duckduckgo", "tavily"}
KeylessEngines == {"duckduckgo"}

\* What the surroundings do during one execute: the key of the engine is
\* configured or not, the search call (or an import) raises or not, the chat
\* table raises or not.
Worlds == [configured : BOOLEAN, raises : BOOLEAN, chat_raises : BOOLEAN]

\* Chats.get_chat_by_id_and_user_id: the index of the chat, 0 when there is none
ChatIndex(cs, chat_id, user_id) ==
    IF \E n \in 1..Len(cs) :
            cs[n].id = chat_id /\ cs[n].user_id = user_id /\ cs[n].live
    THEN CHOOSE n \in 1..Len(cs) :
            cs[n].id = chat_id /\ cs[n].user_id = user_id /\ cs[n].live
    ELSE 0

\* the results of an executor: a dict with a status, or an exception
ExecutorResult(status, chat_id, cs) ==
    [status |-> status, chat_id |-> chat_id, chats |-> cs, raised |-> FALSE]

ExecutorRaised(cs) ==
    [status |-> "none", chat_id |-> NoChat, chats |-> cs, raised |-> TRUE]

SaveToChatAlwaysNew(user_id, config, cs, world) ==
    ExecutorResult("success", ChatIdOf[Len(cs) + 1],
        Append(cs, [id |-> ChatIdOf[Len(cs) + 1], user_id |-> user_id,
                    live |-> TRUE, saves |-> 1]))

\* WebSearchExecutor._save_to_chat and the result execute makes of it: the
\* chat the config names gets the new messages when the owner still has it,
\* otherwise a new chat is inserted; an exception on the way gives no chat_id
SaveToChat(user_id, config, cs, world) ==
    IF world.chat_raises THEN ExecutorResult("success", NoChat, cs)
    ELSE IF /\ Get(config, "chat_id", NoChat) # NoChat
            /\ ChatIndex(cs, Get(config, "chat_id", NoChat), user_id) # 0
    THEN ExecutorResult("success", config.chat_id,
            [cs EXCEPT ![ChatIndex(cs, config.chat_id, user_id)].saves = @ + 1])
    ELSE ExecutorResult("success", ChatIdOf[Len(cs) + 1],
            Append(cs, [id |-> ChatIdOf[Len(cs) + 1], user_id |-> user_id,
                        live |-> TRUE, saves |-> 1]))

\* the body of WebSearchExecutor.execute, inside its try
WebSearchBody(user_id, config, cs, world) ==
    IF Get(config, "query", "") = "" THEN ExecutorResult("error", NoChat, cs)
    ELSE IF Get(config, "engine", "ollama_cloud") \notin SupportedEngines
    THEN ExecutorResult("error", NoChat, cs)
    ELSE IF /\ Get(config, "engine", "ollama_cloud") \notin KeylessEngines
            /\ ~world.configured
    THEN ExecutorResult("error", NoChat, cs)
    ELSE IF world.raises THEN ExecutorRaised(cs)
    ELSE IF Get(config, "save_to_chat", TRUE)
    THEN SaveToChat(user_id, config, cs, world)
    ELSE ExecutorResult("success", NoChat, cs)

\* the body of ChatCompletionExecutor.execute, inside its try
ChatCompletionBody(user_id, config, cs, world) ==
    IF world.raises THEN ExecutorRaised(cs)
    ELSE IF Get(config, "prompt", "") = "" THEN ExecutorResult("error", NoChat, cs)
    ELSE IF Get(config, "model", "") = "" THEN ExecutorResult("error", NoChat, cs)
    ELSE ExecutorResult("success", NoChat, cs)

\* the body of NotificationExecutor.execute, inside its try
NotificationBody(user_id, config, cs, world) ==
    IF world.raises THEN ExecutorRaised(cs)
    ELSE ExecutorResult("success", NoChat, cs)

CaughtNothing(res, cs) == res

\* try: ... except Exception: return {"status": "error", ...}
Caught(res, cs) ==
    IF res.raised THEN ExecutorResult("error", NoChat, cs) ELSE res

\* execute(user_id, action_config) of the executor registered for action_type
ExecutorExecute(action_type, user_id, config, cs, world) ==
    CASE action_type = "web_search" ->
            Caught(WebSearchBody(user_id, config, cs, world), cs)
      [] action_type = "chat_completion" ->
            Caught(ChatCompletionBody(user_id, config, cs, world), cs)
      [] action_type = "notification" ->
            Caught(NotificationBody(user_id, config, cs, world), cs)

\* what execute_action sees of the executor's result
OutcomeOf(res) ==
    IF res.raised THEN "raise"
    ELSE IF res.status = "success" /\ res.chat_id # NoChat THEN ChatOutcome
    ELSE res.status

\* the executor of fire i, run on the config the fire fetched
FireResult(i, world) ==
    ExecutorExecute(tasks[i].action.action_type, tasks[i].action.user_id,
                    tasks[i].action.action_config, chats, world)

\* the registered executor of fire i returns and the fire runs to its end
ExecutorFinish(i, world) ==
    /\ InFlight(i)
    /\ LET r0 == ExecuteActionAfterChat(db, notified, tasks[i].action,
                                        OutcomeOf(FireResult(i, world)), NoFaults,
                                        FireResult(i, world).chat_id)
           r == WrapperBookkeeping(r0.db, jobs, tasks[i].action, r0.log, NowSec,
                                   NoFaults)
       IN  /\ db' = r.db
           /\ lastLog' = r.log
           /\ notified' = r0.notified
    /\ chats' = FireResult(i, world).chats
    /\ raised' = (raised \/ FireResult(i, world).raised)
    /\ tasks' = RemoveAt(tasks, i)
    /\ UNCHANGED <<calls, created, now, running, jobs, job_map, onceExecs,
                   reenabled, lastReload, cancelled, refusals>>

\* the owner deletes a chat
DeleteChat(n) ==
    /\ n \in 1..Len(chats)
    /\ chats[n].live
    /\ calls < MaxCalls
    /\ calls' = calls + 1
    /\ chats' = [chats EXCEPT ![n].live = FALSE]
    /\ UNCHANGED <<db, created, now, running, jobs, job_map, tasks, lastLog, raised,
                   onceExecs, reenabled, lastReload, notified, cancelled, refusals>>

\* the requests of the executor scenarios
RegisteredSchedules ==
    { [schedule_type |-> "interval",
       schedule_config |-> [value |-> 40, unit |-> "seconds"]],
      [schedule_type |-> "once",
       schedule_config |-> [datetime |-> "1970-01-01T00:00:00Z"]] }

RegisteredActions ==
    { [action_type |-> "web_search", action_config |-> [query |-> "q"]],
      [action_type |-> "web_search",
       action_config |-> [query |-> "q", engine |-> "duckduckgo",
                          save_to_chat |-> FALSE]],
      [action_type |-> "web_search", action_config |-> [engine |-> "brave"]],
      [action_type |-> "web_search",
       action_config |-> [query |-> "q", engine |-> "google"]],
      [action_type |-> "chat_completion", action_config |-> [prompt |-> "p"]],
      [action_type |-> "chat_completion",
       action_config |-> [prompt |-> "p", model |-> "m"]],
      [action_type |-> "chat_completion", action_config |-> EmptyDict],
      [action_type |-> "notification", action_config |-> EmptyDict] }

RegisteredForms ==
    {ScheduledActionForm(sc, ac, TRUE) :
        sc \in RegisteredSchedules, ac \in RegisteredActions}

\* requests POST /create has to reject: an action_type or a schedule_type
\* that is not in the lists of the route
RejectedForms ==
    {ScheduledActionForm(sc, ac, TRUE) :
        sc \in RegisteredSchedules, ac \in UnregisteredActions}
    \cup
    {ScheduledActionForm([schedule_type |-> "weekly", schedule_config |-> EmptyDict],
                         ac, TRUE) : ac \in ExecActions}

NextRegistered ==
    \/ ~LoopBlocked /\ ~running /\ Start(NoFaults)
    \/ \E u \in Users, f \in RegisteredForms \cup RejectedForms :
            ~LoopBlocked /\ ApiCreate(u, f, NoFaults)
    \/ Dispatch
    \/ \E i \in 1..Len(tasks) : ~LoopBlocked /\ RunJobStart(i, NoFaults)
    \/ \E i \in 1..Len(tasks), w \in Worlds : ExecutorFinish(i, w)
    \/ \E n \in 1..Len(chats) : ~LoopBlocked /\ DeleteChat(n)
    \/ Tick

SpecRegistered == Init /\ [][NextRegistered]_vars

\* the surroundings in which everything outside the executor goes wrong
WorstWorld == [configured |-> TRUE, raises |-> TRUE, chat_raises |-> TRUE]

\* C27: whatever the configuration and the surroundings of a fire, execute of
\* a registered executor raises nothing and returns a status of 'success' or
\* 'error'; a missing query, prompt or model, an engine without a branch or
\* without its key, and an exception in the body all give 'error'.
C27_ExecutorsReportFailuresAsData ==
    \A i \in 1..Len(tasks), w \in Worlds :
        (InFlight(i) /\ tasks[i].action.action_type \in EXECUTOR_REGISTRY) =>
            /\ ~FireResult(i, w).raised
            /\ FireResult(i, w).status \in {"success", "error"}
            /\ (tasks[i].action.action_type = "web_search" /\
                (\/ Get(tasks[i].action.action_config, "query", "") = ""
                 \/ Get(tasks[i].action.action_config, "engine", "ollama_cloud")
                        \notin SupportedEngines
                 \/ (Get(tasks[i].action.action_config, "engine", "ollama_cloud")
                        \notin KeylessEngines /\ ~w.configured)
                 \/ w.raises))
                    => FireResult(i, w).status = "error"
            /\ (tasks[i].action.action_type = "chat_completion" /\
                (\/ Get(tasks[i].action.action_config, "prompt", "") = ""
                 \/ Get(tasks[i].action.action_config, "model", "") = ""
                 \/ w.raises))
                    => FireResult(i, w).status = "error"

\* a web search whose search call raises is in flight, and execute returns
\* 'error' for it
C27_Witness ==
    \E i \in 1..Len(tasks) :
        /\ InFlight(i)
        /\ tasks[i].action.action_type = "web_search"
        /\ WebSearchBody(tasks[i].action.user_id, tasks[i].action.action_config,
                         chats, WorstWorld).raised
        /\ FireResult(i, WorstWorld).status = "error"
        /\ ~FireResult(i, WorstWorld).raised

\* the chat the config of an action names, when its owner still has it
ChatOf(action) ==
    ChatIndex(chats, Get(action.action_config, "chat_id", NoChat), action.user_id)

C29_InvalidCreateRejected ==
    [][\A u \in Users, f \in RejectedForms :
         ( /\ calls' # calls
           /\ ~LoopBlocked
           /\ ApiCreate(u, f, NoFaults) )
         => /\ CreateResponse(f).status_code = BadRequest
            /\ db' = db
            /\ created' = created
            /\ jobs' = jobs
            /\ job_map' = job_map
            /\ lastReload' = lastReload
            /\ lastLog' = lastLog]_vars

\* the scheduler runs with the timer of the one action that was created, and
\* one of the two requests made was rejected
C29_Witness ==
    /\ running
    /\ created = 1
    /\ calls = 2
    /\ Len(chats) = 0
    /\ tasks = << >>
    /\ HasTimer(jobs, 1)
    /\ db[2] = NoAction

\* C30: reload_jobs, called by itself or by start(), leaves every persisted
\* field of every action except next_run_at as it was: last_run_at (null
\* included), the enabled flag, the owner, the types and the configs.
C30_ReloadKeepsOtherFields ==
    [][( \/ calls' # calls /\ created' = created /\ Reload(NoFaults)
         \/ running' # running /\ Start(NoFaults) )
        => \A a \in Ids :
             db[a] # NoAction =>
                /\ db'[a] # NoAction
                /\ db'[a].last_run_at = db[a].last_run_at
                /\ db'[a].enabled = db[a].enabled
                /\ db'[a].user_id = db[a].user_id
                /\ db'[a].schedule_type = db[a].schedule_type
                /\ db'[a].schedule_config = db[a].schedule_config
                /\ db'[a].action_type = db[a].action_type
                /\ db'[a].action_config = db[a].action_config]_vars

\* the interval of the row a, as _create_trigger reads it
IntervalOf(d, a) ==
    IntervalLength(Get(d[a].schedule_config, "value", DefaultIntervalValue),
                   Get(d[a].schedule_config, "unit", "minutes"))

\* C31: after every reload on a running scheduler, whatever request caused it,
\* the timer of every enabled interval action is due one full interval after
\* the instant of the reload, whenever its previous timer was due.
C31_ReloadRestartsIntervals ==
    [][(running /\ running' /\ calls' # calls /\ ReloadStep(NoFaults))
        => \A a \in Ids :
             ( /\ IsEnabled(db', a)
               /\ db'[a].schedule_type = "interval"
               /\ ValidSchedule(db', a) )
             => /\ HasTimer(jobs', a)
                /\ GetJob(jobs', JobId(a)).next_run_time = NowSec + IntervalOf(db', a)
                /\ db'[a].next_run_at = NowSec + IntervalOf(db', a)]_vars

\* an interval timer that a reload made one clock tick after the start is due
\* a full interval after that reload
C31_Witness ==
    \E a \in Ids :
        /\ running
        /\ NowSec = SecondsPerTick
        /\ IsEnabled(db, a)
        /\ db[a].schedule_type = "interval"
        /\ HasTimer(jobs, a)
        /\ GetJob(jobs, JobId(a)).next_run_time = SecondsPerTick + IntervalOf(db, a)

\* ------------------------------------------------- edits during a fire
\* the schedules of the requests: a 'once' schedule that is due at once and
\* the interval schedule an edit replaces it with
RaceSchedules ==
    { [schedule_type |-> "once",
       schedule_config |-> [datetime |-> "1970-01-01T00:00:00Z"]],
      [schedule_type |-> "interval",
       schedule_config |-> [value |-> 1, unit |-> "minutes"]] }

\* fires whose executor is awaited while the routes of the API are served
NextRace ==
    \/ ~running /\ Start(NoFaults)
    \/ \E u \in Users, sc \in RaceSchedules :
            ApiCreate(u, ScheduledActionForm(sc, DefaultAction, TRUE), NoFaults)
    \/ \E a \in Ids, sc \in RaceSchedules : ApiUpdate(a, sc, NoFaults)
    \/ \E a \in Ids, e \in BOOLEAN : ApiToggle(a, e, NoFaults)
    \/ \E a \in Ids : ApiDelete(a, NoFaults)
    \/ Reload(NoFaults)
    \/ ProcessJobs
    \/ \E i \in 1..Len(tasks) : RunJobStart(i, NoFaults)
    \/ \E i \in 1..Len(tasks), o \in ExecOutcomes : RunJobFinish(i, o, NoFaults)
    \/ Tick

SpecRace == Init /\ [][NextRace]_vars

\* C32: whenever no fire is queued or in flight (a reload is a single step),
\* every action that has a timer on the running scheduler exists in the
\* repository and is enabled.
C32_TimersOnlyForEnabledActions ==
    (running /\ tasks = << >>) =>
        \A a \in Ids : HasTimer(jobs, a) => IsEnabled(db, a)

\* what a write of the scheduler may not do to the repository
SchedulerFrame(d1, d2) ==
    \A a \in Ids :
        /\ (d1[a] = NoAction) <=> (d2[a] = NoAction)
        /\ d1[a] # NoAction =>
            /\ d2[a].enabled => d1[a].enabled
            /\ d2[a].user_id = d1[a].user_id
            /\ d2[a].action_type = d1[a].action_type
            /\ d2[a].schedule_type = d1[a].schedule_type
            /\ d2[a].schedule_config = d1[a].schedule_config

\* C33: a step of the scheduler itself (a start, a reload_jobs, a dispatch, a
\* fire from its fetch to its bookkeeping, with the write of a chat_id)
\* creates and deletes no action, enables none, and leaves the owner, the
\* types and the schedule_config of every action as they are; a fire that
\* ends after its action was deleted does not bring it back.
C33_SchedulerWritesFrame ==
    [][( \/ calls' = calls
         \/ created' = created /\ db' # db /\ Reload(NoFaults) )
        => SchedulerFrame(db, db')]_vars

\* the fire of an action that was deleted while it was in flight has ended
\* with the result of its executor, and the action is still absent
C33_Witness ==
    \E a \in Ids :
        /\ a <= created
        /\ db[a] = NoAction
        /\ tasks = << >>
        /\ lastLog = Info("Action execution result", a)

\* ------------------------------------------------------- who may do what
\* the status codes of the refusals
NotFound == 404
Forbidden == 403

\* the callers of the routes: the owner of every action, and another account
\* as a plain user and as an admin
Stranger == NumUsers + 1
Callers ==
    { [id |-> u, role |-> "user"] : u \in Users }
    \cup { [id |-> Stranger, role |-> ro] : ro \in {"user", "admin"} }

RouteStatusNoOwnerCheck(d, action_id, caller) ==
    IF d[action_id] = NoAction THEN NotFound ELSE Ok

\* the first lines of the routes on /{action_id}: 404 for a missing action,
\* 403 for a caller who is neither its owner nor an admin
RouteStatus(d, action_id, caller) ==
    IF d[action_id] = NoAction THEN NotFound
    ELSE IF d[action_id].user_id # caller.id /\ caller.role # "admin" THEN Forbidden
    ELSE Ok

\* the route raises the HTTPException and does nothing else
Refuse(route, caller, action_id) ==
    /\ calls < MaxCalls
    /\ calls' = calls + 1
    /\ refusals' = refusals \cup
            {[route |-> route, caller |-> caller.id, id |-> action_id,
              status_code |-> RouteStatus(db, action_id, caller)]}
    /\ UNCHANGED <<db, created, now, running, jobs, job_map, tasks, lastLog, raised,
                   onceExecs, reenabled, lastReload, notified, cancelled, chats>>

\* the response of GET /{action_id}
GetByIdResponse(d, action_id, caller) ==
    [status_code |-> RouteStatus(d, action_id, caller),
     body |-> IF RouteStatus(d, action_id, caller) = Ok THEN d[action_id]
              ELSE NoAction]

\* GET /{action_id}
RouteGet(caller, action_id) ==
    IF RouteStatus(db, action_id, caller) = Ok
    THEN /\ calls < MaxCalls
         /\ calls' = calls + 1
         /\ UNCHANGED <<db, created, now, running, jobs, job_map, tasks, lastLog,
                        raised, onceExecs, reenabled, lastReload, notified,
                        cancelled, chats, refusals>>
    ELSE Refuse("get", caller, action_id)

\* POST /{action_id}/update
RouteUpdate(caller, action_id, form) ==
    IF RouteStatus(db, action_id, caller) = Ok
    THEN ApiUpdate(action_id, form, NoFaults)
    ELSE Refuse("update", caller, action_id)

\* POST /{action_id}/toggle
RouteToggle(caller, action_id, enabled) ==
    IF RouteStatus(db, action_id, caller) = Ok
    THEN ApiToggle(action_id, enabled, NoFaults)
    ELSE Refuse("toggle", caller, action_id)

\* DELETE /{action_id}
RouteDelete(caller, action_id) ==
    IF RouteStatus(db, action_id, caller) = Ok
    THEN ApiDelete(action_id, NoFaults)
    ELSE Refuse("delete", caller, action_id)

\* POST /{action_id}/test, up to the call of the executor
RouteTest(caller, action_id) ==
    IF RouteStatus(db, action_id, caller) = Ok
    THEN TestStart(action_id, NoFaults)
    ELSE Refuse("test", caller, action_id)

\* the edit the update requests carry
RouteEdits ==
    { [schedule_type |-> "interval",
       schedule_config |-> [value |-> 2, unit |-> "minutes"]] }

NextRoutes ==
    \/ ~running /\ Start(NoFaults)
    \/ \E u \in Users, sc \in ExecSchedules :
            ApiCreate(u, ScheduledActionForm(sc, DefaultAction, TRUE), NoFaults)
    \/ \E c \in Callers, a \in Ids : RouteGet(c, a)
    \/ \E c \in Callers, a \in Ids, f \in RouteEdits : RouteUpdate(c, a, f)
    \/ \E c \in Callers, a \in Ids, e \in BOOLEAN : RouteToggle(c, a, e)
    \/ \E c \in Callers, a \in Ids : RouteDelete(c, a)
    \/ \E c \in Callers, a \in Ids : RouteTest(c, a)
    \/ \E i \in 1..Len(tasks) : TestFinish(i, "success", NoFaults)
    \/ ProcessJobs
    \/ \E i \in 1..Len(tasks) : RunJobStart(i, NoFaults)
    \/ \E i \in 1..Len(tasks) : RunJobFinish(i, "success", NoFaults)
    \/ Tick

SpecRoutes == Init /\ [][NextRoutes]_vars

\* the caller is neither the owner of the action a nor an admin
IsStranger(caller, a) ==
    db[a] # NoAction /\ db[a].user_id # caller.id /\ caller.role # "admin"

\* C34: a get, update, toggle, delete or test request for an existing action
\* by a caller who is neither its owner nor an admin is answered with 403;
\* the action is not in the response, the repository, the timers and the fires
\* are as before, nothing is executed and no reload has run.
C34_StrangerRefused ==
    [][\A c \in Callers, a \in Ids :
         ( /\ calls' # calls
           /\ IsStranger(c, a)
           /\ \/ RouteGet(c, a)
              \/ \E f \in RouteEdits : RouteUpdate(c, a, f)
              \/ \E e \in BOOLEAN : RouteToggle(c, a, e)
              \/ RouteDelete(c, a)
              \/ RouteTest(c, a) )
         => /\ RouteStatus(db, a, c) = Forbidden
            /\ GetByIdResponse(db, a, c).body = NoAction
            /\ \E r \in refusals' :
                    r.caller = c.id /\ r.id = a /\ r.status_code = Forbidden
            /\ UNCHANGED <<db, jobs, job_map, tasks, lastReload, lastLog, notified,
                           onceExecs, reenabled, chats>>]_vars

\* the update and the delete route have refused a request for an action that
\* is still there, enabled and with its timer
C34_Witness ==
    \E a \in Ids :
        /\ running
        /\ IsEnabled(db, a)
        /\ HasTimer(jobs, a)
        /\ \E r1, r2 \in refusals :
                /\ r1.id = a /\ r1.status_code = Forbidden /\ r1.route = "update"
                /\ r2.id = a /\ r2.status_code = Forbidden /\ r2.route = "delete"
====
